---- MODULE Spec2Model ----
(***************************************************************************)
(* The reconstruction tutorial drives a cobrapy 0.16.0 model object        *)
(* (src/reconstruction_tutorial.ipynb, versions printed at line 89) and    *)
(* writes it as SBML (src/unnamed/part_000 is the written minimal.xml).    *)
(* The state is the model object `minimal`: its ordered collections of     *)
(* metabolites, reactions and genes, the annotation dictionaries of the    *)
(* model and of its entities, plus the outcome of the last call            *)
(* (whether it raised, what it skipped, the document it wrote).  Every     *)
(* action is one call made in a notebook cell, with its argument drawn     *)
(* from a small set.                                                       *)
(***************************************************************************)
EXTENDS Integers, Sequences, FiniteSets, TLC

\* ---------------------------------------------------------------- bounds
\* longest list handed to add_metabolites in one call
MaxListLen == 2
\* calls made on the model in one run of Spec
MaxOps == 3
\* calls made on the model in one run of SpecGPR
MaxRuleOps == 3
\* most terms on one side of a reaction formula / in a stoichiometry
MaxTerms == 1
\* calls made on the model in one run of SpecAnnotation
MaxAnnotationOps == 4
\* calls made on the model in one run of SpecIdentifiers
MaxIdentifierOps == 3
\* calls made on the model in one run of SpecTutorial
MaxTutorialOps == 5
\* calls made on the model and its entities in one run of SpecFields
MaxFieldOps == 4

\* ------------------------------------------------------------ input sets
MetaboliteIds == {"atp_c", "adp_c"}
CompartmentIds == {"c", "e"}
ReactionIds == {"PFK", "PGI"}
GeneIds == {"PF3D7_1128300", "PF3D7_0915400"}

VARIABLES metabolites, reactions, genes, annotation, attributes, result, ops

vars == <<metabolites, reactions, genes, annotation, attributes, result, ops>>

\* ------------------------------------------------------- sequence helpers
Range(s) == {s[i] : i \in DOMAIN s}

Ids(list) == {list[i].id : i \in DOMAIN list}

\* all sequences over S of length 0..n
SeqsUpTo(S, n) == UNION {[1..k -> S] : k \in 0..n}

\* every order in which the elements of S can be listed
Orders(S) == {o \in [1..Cardinality(S) -> S] : Range(o) = S}

\* sequences without a repeated identifier
DistinctIds(list) == \A i, j \in DOMAIN list : list[i].id = list[j].id => i = j

\* DictList.has_id / `x in DictList`: membership is by identifier
has_id(list, id) == \E i \in DOMAIN list : list[i].id = id

\* DictList.index: position of the entry with the identifier
index(list, id) == CHOOSE i \in DOMAIN list : list[i].id = id

\* DictList.get_by_id
get_by_id(list, id) == list[index(list, id)]

\* ------------------------------------------------------------ cobra objects
\* cobra.Metabolite(id, compartment=...)
Metabolite(id, compartment) == [id |-> id, compartment |-> compartment]

\* cobra.Reaction(id): no metabolites, the empty rule, no genes
Reaction(id) ==
  [id |-> id, metabolites |-> <<>>,
   gene_reaction_rule |-> [op |-> "", atoms |-> <<>>], genes |-> {}]

\* cobra.Gene(id): referenced by no reaction yet
Gene(id) == [id |-> id, reaction |-> {}]

\* what the last call did: its name, "ok" or the exception it raised, the
\* identifiers it passed over, the document it wrote (<<>>: none), and
\* whether the call before it had written a document too, and whether an
\* assignment replaced other values of its key
Outcome(op, status, skipped, document) ==
  [op |-> op, status |-> status, skipped |-> skipped, document |-> document,
   again |-> FALSE, replaced |-> FALSE]

\* the objects that carry an annotation dictionary: the model and the
\* entities, each named by its identifier
Objects == {"minimal"} \cup MetaboliteIds \cup ReactionIds \cup GeneIds

\* the other fields of an object as its constructor leaves them: no name,
\* no charge, no formula (None: <<>>), empty notes, and, for a reaction
\* that is in no model, the empty rule
Attributes ==
  [name |-> "", charge |-> <<>>, formula |-> <<>>, notes |-> <<>>,
   gene_reaction_rule |-> [op |-> "", atoms |-> <<>>]]

\* ------------------------------------------------------------------ Init
\* cobra.Model("minimal", name="Minimal Demo Model"): every collection empty
Init ==
  /\ metabolites = <<>>
  /\ reactions = <<>>
  /\ genes = <<>>
  /\ annotation = [o \in Objects |-> <<>>]
  /\ attributes = [o \in Objects |-> Attributes]
  /\ result = Outcome("Model", "ok", {}, <<>>)
  /\ ops = 0

\* ------------------------------------------------------- Model.compartments
RECURSIVE first_seen(_, _)
first_seen(list, acc) ==
  IF list = <<>> THEN acc
  ELSE first_seen(Tail(list),
                  IF Head(list).compartment \in Range(acc) THEN acc
                  ELSE Append(acc, Head(list).compartment))

\* a model that lists only compartments declared on their own, of which
\* there are none: referencing one from a metabolite does not make it
compartments_declared(mets) == <<>>

\* a model that takes its compartments from its first metabolite only
compartments_first(mets) ==
  IF mets = <<>> THEN <<>> ELSE <<mets[1].compartment>>

\* Model.compartments: the compartments are those the model's metabolites
\* reference, in order of first reference; there is no other way to make one
compartments(mets) == first_seen(mets, <<>>)

\* ------------------------------------------------------ Model.add_metabolites
\* add_metabolites that insists on a registered compartment and raises
\* otherwise
add_metabolites_registered(metabolite_list) ==
  LET fresh == SelectSeq(metabolite_list,
                         LAMBDA x : ~has_id(metabolites, x.id))
      unknown == {i \in DOMAIN fresh :
                    fresh[i].compartment \notin Range(compartments(metabolites))}
  IN IF unknown # {} \/ \E i \in DOMAIN fresh : fresh[i].id = ""
     THEN /\ result' = Outcome("add_metabolites", "ValueError", {}, <<>>)
          /\ UNCHANGED <<metabolites, reactions, genes, annotation, attributes>>
     ELSE /\ metabolites' = metabolites \o fresh
          /\ result' = Outcome("add_metabolites", "ok",
                               Ids(metabolite_list) \ Ids(fresh), <<>>)
          /\ UNCHANGED <<reactions, genes, annotation, attributes>>

\* Metabolites whose identifier the model already holds are dropped from the
\* list, an empty identifier raises ValueError before anything is stored, the
\* rest is appended in list order.  No check is made on the compartment.
add_metabolites(metabolite_list) ==
  LET fresh == SelectSeq(metabolite_list,
                         LAMBDA x : ~has_id(metabolites, x.id))
      bad_ids == {i \in DOMAIN fresh : fresh[i].id = ""}
  IN IF bad_ids # {}
     THEN /\ result' = Outcome("add_metabolites", "ValueError", {}, <<>>)
          /\ UNCHANGED <<metabolites, reactions, genes, annotation, attributes>>
     ELSE /\ metabolites' = metabolites \o fresh
          /\ result' = Outcome("add_metabolites", "ok",
                               Ids(metabolite_list) \ Ids(fresh), <<>>)
          /\ UNCHANGED <<reactions, genes, annotation, attributes>>

\* the lists handed to add_metabolites: metabolites of different
\* identifiers, or one metabolite whose identifier is empty
MetaboliteLists ==
  {l \in SeqsUpTo([id : MetaboliteIds, compartment : CompartmentIds],
                  MaxListLen) : l # <<>> /\ DistinctIds(l)}
    \cup {<<Metabolite("", c)>> : c \in CompartmentIds}

\* -------------------------------------------------------- Model.add_reactions
\* the metabolite objects reactions are built from before they are added:
\* one per identifier, in two compartments
ReactionMetabolites == {Metabolite("atp_c", "c"), Metabolite("adp_c", "e")}

\* the reactions handed to add_reactions carry their metabolite objects:
\* entries of identifier, compartment and coefficient
ReactionInputs ==
  {[id |-> r, metabolites |-> s] :
     r \in ReactionIds,
     s \in {l \in SeqsUpTo({[id |-> m.id, compartment |-> m.compartment,
                              coefficient |-> c] :
                               m \in ReactionMetabolites, c \in {-1, 1}},
                            MaxTerms) :
              DistinctIds(l)}}

\* the stoichiometry entry a reaction of the model keeps: the metabolite is
\* the model's one, named by its identifier
entry(e) == [id |-> e.id, coefficient |-> e.coefficient]

\* the stoichiometry a reaction has once it is attached to a model holding
\* mets: a metabolite the model has is popped from the stoichiometry and put
\* back pointing to the model's metabolite, which moves it behind the others
attach(mets, reaction) ==
  LET missing == SelectSeq(reaction.metabolites, LAMBDA e : ~has_id(mets, e.id))
      known == SelectSeq(reaction.metabolites, LAMBDA e : has_id(mets, e.id))
  IN [i \in DOMAIN missing |-> entry(missing[i])]
       \o [i \in DOMAIN known |-> entry(known[i])]

\* add_reactions that leaves the metabolites of the reaction out of the model
with_metabolites_unresolved(mets, reaction) == mets

\* the metabolites of the reaction that the model lacks are added to it
with_metabolites_of(mets, reaction) ==
  LET missing == SelectSeq(reaction.metabolites, LAMBDA e : ~has_id(mets, e.id))
  IN mets \o [i \in DOMAIN missing |->
                Metabolite(missing[i].id, missing[i].compartment)]

\* the loop over the reactions to add: the model's metabolites and the
\* attached reactions after it
RECURSIVE attach_all(_, _, _)
attach_all(mets, pruned, done) ==
  IF pruned = <<>> THEN [metabolites |-> mets, reactions |-> done]
  ELSE attach_all(with_metabolites_of(mets, Head(pruned)), Tail(pruned),
                  Append(done, [Reaction(Head(pruned).id) EXCEPT
                                  !.metabolites = attach(mets, Head(pruned))]))

\* A reaction whose identifier the model already holds is ignored (a warning
\* is logged).  Every metabolite of the other reactions that the model lacks
\* is added to the model, then the reactions are appended in list order.
add_reactions(reaction_list) ==
  LET pruned == SelectSeq(reaction_list, LAMBDA r : ~has_id(reactions, r.id))
      added == attach_all(metabolites, pruned, <<>>)
  IN /\ metabolites' = added.metabolites
     /\ reactions' = reactions \o added.reactions
     /\ result' = Outcome("add_reactions", "ok",
                          Ids(reaction_list) \ Ids(pruned), <<>>)
     /\ UNCHANGED <<genes, annotation, attributes>>

\* lists of reactions as cobra.Reaction(id) makes them, without metabolites
FreshReactionLists ==
  {l \in SeqsUpTo({r \in ReactionInputs : r.metabolites = <<>>}, MaxListLen) :
     l # <<>> /\ DistinctIds(l)}

\* the lists handed to add_reactions: one reaction with its metabolites, or
\* several fresh reactions
ReactionLists == {<<r>> : r \in ReactionInputs} \cup FreshReactionLists

\* ------------------------------------------- Reaction.reaction = "a + b <=> c"
\* add_metabolites that keeps an entry whose coefficient became zero
add_metabolite_keep_zero(stoich, met, num) ==
  IF has_id(stoich, met)
  THEN [stoich EXCEPT ![index(stoich, met)].coefficient = @ + num]
  ELSE Append(stoich, [id |-> met, coefficient |-> num])

\* Reaction.add_metabolites({met: num}, combine=True) for one metabolite: the
\* coefficient is added to the one the reaction has, a new metabolite goes
\* to the end, and an entry whose coefficient became zero is removed
add_metabolite(stoich, met, num) ==
  LET combined ==
        IF has_id(stoich, met)
        THEN [stoich EXCEPT ![index(stoich, met)].coefficient = @ + num]
        ELSE Append(stoich, [id |-> met, coefficient |-> num])
  IN SelectSeq(combined, LAMBDA e : e.coefficient # 0)

RECURSIVE add_terms(_, _, _)
add_terms(stoich, terms, factor) ==
  IF terms = <<>> THEN stoich
  ELSE add_terms(add_metabolite(stoich, Head(terms), factor),
                 Tail(terms), factor)

\* the formulas assigned: the terms left and right of the arrow, each a
\* metabolite identifier with coefficient 1
Formulas ==
  [reactants : SeqsUpTo(MetaboliteIds, MaxTerms),
   products : SeqsUpTo(MetaboliteIds, MaxTerms)]

\* build_reaction_from_string: the reaction's metabolites are reset, then
\* the terms left of the arrow are added with factor -1 and the terms right
\* of it with factor 1, one at a time.  The formula names metabolites of
\* the model, as in the notebook, where they are added before the formula
\* is assigned.
build_reaction_from_string(rid, formula) ==
  /\ has_id(reactions, rid)
  /\ Range(formula.reactants) \cup Range(formula.products) \subseteq Ids(metabolites)
  /\ reactions' = [reactions EXCEPT ![index(reactions, rid)].metabolites =
       add_terms(add_terms(<<>>, formula.reactants, -1), formula.products, 1)]
  /\ result' = Outcome("reaction", "ok", {}, <<>>)
  /\ UNCHANGED <<metabolites, genes, annotation, attributes>>

\* ---------------------------------------------------------- model.genes.append
\* an append that does not look the identifier up first
genes_append_unchecked(gid) ==
  /\ genes' = Append(genes, Gene(gid))
  /\ result' = Outcome("genes.append", "ok", {}, <<>>)
  /\ UNCHANGED <<metabolites, reactions, annotation, attributes>>

\* DictList.append: an identifier the list holds raises ValueError
genes_append(gid) ==
  IF has_id(genes, gid)
  THEN /\ result' = Outcome("genes.append", "ValueError", {}, <<>>)
       /\ UNCHANGED <<metabolites, reactions, genes, annotation, attributes>>
  ELSE /\ genes' = Append(genes, Gene(gid))
       /\ result' = Outcome("genes.append", "ok", {}, <<>>)
       /\ UNCHANGED <<metabolites, reactions, annotation, attributes>>

\* ------------------------------------------------- Reaction.gene_reaction_rule
\* a rule: gene identifiers joined by one operator ("" when fewer than two)
Rules ==
  {[op |-> "", atoms |-> a] : a \in SeqsUpTo(GeneIds, 1)}
    \cup {[op |-> o, atoms |-> a] : o \in {"or", "and"}, a \in Orders(GeneIds)}

\* parse_gpr: the set of gene identifiers the rule names
gene_names(rule) == Range(rule.atoms)

\* a setter that never takes the reaction away from the genes of the old rule
set_gene_reaction_rule_stale(rid, new_rule, order) ==
  LET r == get_by_id(reactions, rid)
      names == gene_names(new_rule)
      model_genes == genes \o [i \in DOMAIN order |-> Gene(order[i])]
  IN /\ has_id(reactions, rid)
     /\ order \in Orders(names \ Ids(genes))
     /\ reactions' = [reactions EXCEPT ![index(reactions, rid)] =
            [@ EXCEPT !.gene_reaction_rule = new_rule, !.genes = names]]
     /\ genes' = [i \in DOMAIN model_genes |->
            [model_genes[i] EXCEPT !.reaction =
               IF model_genes[i].id \in names THEN @ \cup {rid} ELSE @]]
     /\ result' = Outcome("gene_reaction_rule", "ok", {}, <<>>)
     /\ UNCHANGED <<metabolites, annotation, attributes>>

\* a setter that associates only the genes the model already holds
set_gene_reaction_rule_known(rid, new_rule, order) ==
  LET r == get_by_id(reactions, rid)
      old_genes == r.genes
      names == gene_names(new_rule) \cap Ids(genes)
  IN /\ has_id(reactions, rid)
     /\ order \in Orders(gene_names(new_rule) \ Ids(genes))
     /\ reactions' = [reactions EXCEPT ![index(reactions, rid)] =
            [@ EXCEPT !.gene_reaction_rule = new_rule, !.genes = names]]
     /\ genes' = [i \in DOMAIN genes |->
            [genes[i] EXCEPT !.reaction =
               IF genes[i].id \in names THEN @ \cup {rid}
               ELSE IF genes[i].id \in old_genes THEN @ \ {rid}
               ELSE @]]
     /\ result' = Outcome("gene_reaction_rule", "ok", {}, <<>>)
     /\ UNCHANGED <<metabolites, annotation, attributes>>

\* the setter on a reaction of the model: genes the model lacks are created
\* and appended to model.genes (they are taken from a set, so in no fixed
\* order); every gene named gets the reaction added to its reactions, every
\* gene of the old rule that is no longer named gets it removed
set_gene_reaction_rule(rid, new_rule, order) ==
  LET r == get_by_id(reactions, rid)
      old_genes == r.genes
      names == gene_names(new_rule)
      model_genes == genes \o [i \in DOMAIN order |-> Gene(order[i])]
  IN /\ has_id(reactions, rid)
     /\ order \in Orders(names \ Ids(genes))
     /\ reactions' = [reactions EXCEPT ![index(reactions, rid)] =
            [@ EXCEPT !.gene_reaction_rule = new_rule, !.genes = names]]
     /\ genes' = [i \in DOMAIN model_genes |->
            [model_genes[i] EXCEPT !.reaction =
               IF model_genes[i].id \in names THEN @ \cup {rid}
               ELSE IF model_genes[i].id \in old_genes THEN @ \ {rid}
               ELSE @]]
     /\ result' = Outcome("gene_reaction_rule", "ok", {}, <<>>)
     /\ UNCHANGED <<metabolites, annotation, attributes>>

\* Gene.reactions: the reverse lookup
gene_reactions(gid) == get_by_id(genes, gid).reaction

\* ----------------------------------------------------------- Object.annotation
\* The annotation attribute is a Python dictionary: the keys keep the order
\* in which they were first assigned, a value is a string or a list of
\* strings.
Str(v) == [type |-> "str", data |-> <<v>>]

List(l) == [type |-> "list", data |-> l]

\* the registry keys and the values assigned to them: a string, a list of
\* one and lists of two in both orders
AnnotationKeys == {"rhea", "ec-code"}

AnnotationValues ==
  {Str("16109"), List(<<"16110">>), List(<<"16109", "16110">>),
   List(<<"16110", "16109">>)}

\* `key in dict`
has_key(dict, key) == \E i \in DOMAIN dict : dict[i].key = key

\* an assignment that keeps what the key had and puts the new values behind
setitem_extend(dict, key, value) ==
  IF has_key(dict, key)
  THEN [dict EXCEPT ![CHOOSE i \in DOMAIN dict : dict[i].key = key].value =
          List(@.data \o value.data)]
  ELSE Append(dict, [key |-> key, value |-> value])

\* dict[key] = value: a key the dictionary has keeps its place and gets the
\* new value instead of the old one, a new key goes to the end
setitem(dict, key, value) ==
  IF has_key(dict, key)
  THEN [dict EXCEPT ![CHOOSE i \in DOMAIN dict : dict[i].key = key].value = value]
  ELSE Append(dict, [key |-> key, value |-> value])

\* dict[key]: the value as it was assigned, KeyError for a key never assigned
getitem(dict, key) ==
  IF has_key(dict, key)
  THEN dict[CHOOSE i \in DOMAIN dict : dict[i].key = key].value
  ELSE [type |-> "KeyError", data |-> <<>>]

\* the object is the model or one of its entities
in_model(o) ==
  \/ o = "minimal"
  \/ has_id(metabolites, o) \/ has_id(reactions, o) \/ has_id(genes, o)

\* the dictionary of the object named o (empty for an object that never
\* got an annotation)
annotation_of(o) == IF o \in DOMAIN annotation THEN annotation[o] ELSE <<>>

\* object.annotation[key] = value, on the model or on an entity it holds
set_annotation(o, key, value) ==
  /\ in_model(o)
  /\ annotation' = [annotation EXCEPT ![o] = setitem(@, key, value)]
  /\ result' = [Outcome("annotation", "ok", {}, <<>>) EXCEPT
                  !.replaced = /\ has_key(annotation[o], key)
                               /\ getitem(annotation[o], key) # value]
  /\ UNCHANGED <<metabolites, reactions, genes, attributes>>

\* ------------------------------------------------------------ write_sbml_model
\* a writer that leaves the identifiers as they are in the model
f_replace_none(prefix, id) == id

\* the identifier replacements of the writer: the prefix of the entity
\* class is put before the identifier, which is left as it is
f_replace(prefix, id) == prefix \o id

\* the MIRIAM resource written for one value of a key
URL_IDENTIFIERS_PREFIX == "https://identifiers.org"

resource(provider, entity) ==
  URL_IDENTIFIERS_PREFIX \o "/" \o provider \o "/" \o entity

\* a writer that makes one resource per key, of the first value
RECURSIVE rdf_li_first(_)
rdf_li_first(dict) ==
  IF dict = <<>> THEN <<>>
  ELSE <<resource(Head(dict).key, Head(dict).value.data[1])>>
         \o rdf_li_first(Tail(dict))

\* the resources of a dictionary: the keys in dictionary order, a string
\* as the list of itself, the values of a list in list order
RECURSIVE rdf_li(_)
rdf_li(dict) ==
  IF dict = <<>> THEN <<>>
  ELSE [i \in DOMAIN Head(dict).value.data |->
          resource(Head(dict).key, Head(dict).value.data[i])]
         \o rdf_li(Tail(dict))

\* a writer that gives every element an annotation block
sbase_annotations_always(dict) == <<[qualifier |-> "is", Bag |-> rdf_li(dict)]>>

\* _sbase_annotations: nothing for an empty dictionary, else one block of
\* "is" resources
sbase_annotations(dict) ==
  IF dict = <<>> THEN <<>>
  ELSE <<[qualifier |-> "is", Bag |-> rdf_li(dict)]>>

\* the fields of the object named o (as the constructor leaves them for an
\* object that never got one assigned)
attributes_of(o) == IF o \in DOMAIN attributes THEN attributes[o] ELSE Attributes

\* the name attribute is written only for a name that is not empty
name_attribute(name) == IF name = "" THEN <<>> ELSE <<name>>

\* _sbase_notes_dict: nothing for empty notes, else one paragraph
\* "key: value" per entry
sbase_notes(dict) ==
  IF dict = <<>> THEN <<>>
  ELSE <<[p |-> [i \in DOMAIN dict |-> dict[i].key \o ": " \o dict[i].value]]>>

\* the species element of one metabolite: name, charge and formula are
\* attributes that are written when they are set
species(m) ==
  [id |-> f_replace("M_", m.id), compartment |-> m.compartment,
   name |-> name_attribute(attributes_of(m.id).name),
   charge |-> attributes_of(m.id).charge,
   chemicalFormula |-> attributes_of(m.id).formula,
   annotation |-> sbase_annotations(annotation_of(m.id))]

\* a writer that emits the species newest first
listOfSpecies_reversed(mets) ==
  [i \in DOMAIN mets |-> species(mets[Len(mets) + 1 - i])]

\* one species element per metabolite, in the order of model.metabolites
listOfSpecies(mets) == [i \in DOMAIN mets |-> species(mets[i])]

\* a writer that gives each reaction its own copy of the default bounds
listOfParameters_per_reaction(rxns) ==
  [i \in 1..(2 * Len(rxns)) |->
     IF i % 2 = 1 THEN [id |-> "cobra_default_lb", value |-> "-1000"]
     ELSE [id |-> "cobra_default_ub", value |-> "1000"]]

\* the flux bound parameters of the document, written once whatever the
\* reactions are
listOfParameters(rxns) ==
  <<[id |-> "cobra_default_lb", value |-> "-1000"],
    [id |-> "cobra_default_ub", value |-> "1000"],
    [id |-> "cobra_0_bound", value |-> "0"],
    [id |-> "minus_inf", value |-> "-INF"],
    [id |-> "plus_inf", value |-> "INF"]>>

speciesReference(e) ==
  [species |-> f_replace("M_", e.id),
   stoichiometry |-> IF e.coefficient < 0 THEN -e.coefficient ELSE e.coefficient]

\* a negative coefficient makes a reactant, any other a product
listOfReactants(r) ==
  LET neg == SelectSeq(r.metabolites, LAMBDA e : e.coefficient < 0)
  IN [i \in DOMAIN neg |-> speciesReference(neg[i])]

listOfProducts(r) ==
  LET pos == SelectSeq(r.metabolites, LAMBDA e : ~(e.coefficient < 0))
  IN [i \in DOMAIN pos |-> speciesReference(pos[i])]

\* a writer that keeps only the first gene of a rule
geneProductAssociation_first(r) ==
  IF r.gene_reaction_rule.atoms = <<>> THEN <<>>
  ELSE <<[op |-> r.gene_reaction_rule.op,
          geneProductRef |-> <<f_replace("G_", r.gene_reaction_rule.atoms[1])>>]>>

\* the association is written only for a rule that is not empty
geneProductAssociation(r) ==
  IF r.gene_reaction_rule.atoms = <<>> THEN <<>>
  ELSE <<[op |-> r.gene_reaction_rule.op,
          geneProductRef |-> [i \in DOMAIN r.gene_reaction_rule.atoms |->
             f_replace("G_", r.gene_reaction_rule.atoms[i])]]>>

\* a reaction element names its flux bounds by the identifiers of the
\* parameters
listOfReactions(rxns) ==
  [i \in DOMAIN rxns |->
     [id |-> f_replace("R_", rxns[i].id),
      name |-> name_attribute(attributes_of(rxns[i].id).name),
      lowerFluxBound |-> "cobra_default_lb",
      upperFluxBound |-> "cobra_default_ub",
      annotation |-> sbase_annotations(annotation_of(rxns[i].id)),
      listOfReactants |-> listOfReactants(rxns[i]),
      listOfProducts |-> listOfProducts(rxns[i]),
      geneProductAssociation |-> geneProductAssociation(rxns[i])]]

\* a gene product without a name is written with its identifier as name
listOfGeneProducts(gs) ==
  [i \in DOMAIN gs |->
     [id |-> f_replace("G_", gs[i].id),
      name |-> IF attributes_of(gs[i].id).name = ""
               THEN f_replace("G_", gs[i].id)
               ELSE attributes_of(gs[i].id).name,
      notes |-> sbase_notes(attributes_of(gs[i].id).notes),
      annotation |-> sbase_annotations(annotation_of(gs[i].id))]]

\* the document written for the model as it is now
sbml ==
  [annotation |-> sbase_annotations(annotation_of("minimal")),
   listOfCompartments |-> compartments(metabolites),
   listOfSpecies |-> listOfSpecies(metabolites),
   listOfParameters |-> listOfParameters(reactions),
   listOfReactions |-> listOfReactions(reactions),
   listOfGeneProducts |-> listOfGeneProducts(genes)]

\* a writer that puts the prefixed identifiers back into the model
write_sbml_model_in_place ==
  /\ result' = [Outcome("write_sbml_model", "ok", {}, <<sbml>>) EXCEPT
                  !.again = (result.op = "write_sbml_model")]
  /\ metabolites' = [i \in DOMAIN metabolites |->
       [metabolites[i] EXCEPT !.id = f_replace("M_", @)]]
  /\ UNCHANGED <<reactions, genes, annotation, attributes>>

\* a writer that standardises the annotation dictionaries of the model
\* themselves instead of a copy: a string becomes the list of itself
write_sbml_model_standardized ==
  /\ result' = [Outcome("write_sbml_model", "ok", {}, <<sbml>>) EXCEPT
                  !.again = (result.op = "write_sbml_model")]
  /\ annotation' = [o \in DOMAIN annotation |->
       [i \in DOMAIN annotation[o] |->
          [annotation[o][i] EXCEPT !.value = List(@.data)]]]
  /\ UNCHANGED <<metabolites, reactions, genes, attributes>>

\* write_sbml_model(minimal, "minimal.xml"): the document is built from the
\* model, which is only read
write_sbml_model ==
  /\ result' = [Outcome("write_sbml_model", "ok", {}, <<sbml>>) EXCEPT
                  !.again = (result.op = "write_sbml_model")]
  /\ UNCHANGED <<metabolites, reactions, genes, annotation, attributes>>

\* ----------------------------------------------------------- entity fields
\* The fields of an entity are attributes of a Python object.  The model
\* holds the object itself, so an assignment reaches the same object
\* whether or not a model holds it yet.
\* the entities whose fields are assigned: one metabolite, the reaction and
\* the gene that the notebook constructs itself
FieldObjects == {"atp_c", "PFK", "PF3D7_1128300"}

\* the plain fields assigned to each kind of entity
FieldsOf(o) ==
  IF o \in MetaboliteIds THEN {"name", "charge", "formula"} ELSE {"name"}

FieldValues(field) ==
  CASE field = "name" -> {"phosphofructokinase"}
    [] field = "charge" -> {<<-2>>}
    [] field = "formula" -> {<<"C15H29O7P">>}

\* the values assigned to an annotation key
FieldAnnotations == {Str("16109"), List(<<"16110">>)}

\* the rules assigned to the reaction: one gene that only the rule names,
\* and the empty rule
FieldRules ==
  {[op |-> "", atoms |-> <<"PF3D7_0915400">>], [op |-> "", atoms |-> <<>>]}

\* object.name = value, object.charge = value, object.formula = value
setattr(o, field, value) ==
  /\ attributes' = [attributes EXCEPT ![o][field] = value]
  /\ result' = Outcome("setattr", "ok", {}, <<>>)
  /\ UNCHANGED <<metabolites, reactions, genes, annotation>>

\* gene.notes[key] = value
set_notes(o, key, value) ==
  /\ attributes' = [attributes EXCEPT ![o].notes = setitem(@, key, value)]
  /\ result' = Outcome("notes", "ok", {}, <<>>)
  /\ UNCHANGED <<metabolites, reactions, genes, annotation>>

\* object.annotation[key] = value on an entity that no model holds yet
set_annotation_detached(o, key, value) ==
  /\ ~in_model(o)
  /\ annotation' = [annotation EXCEPT ![o] = setitem(@, key, value)]
  /\ result' = [Outcome("annotation", "ok", {}, <<>>) EXCEPT
                  !.replaced = /\ has_key(annotation[o], key)
                               /\ getitem(annotation[o], key) # value]
  /\ UNCHANGED <<metabolites, reactions, genes, attributes>>

\* the setter on a reaction that no model holds yet: the rule is kept on
\* the reaction, the genes it names are new objects of the reaction alone
set_gene_reaction_rule_detached(rid, new_rule) ==
  /\ ~has_id(reactions, rid)
  /\ attributes' = [attributes EXCEPT ![rid].gene_reaction_rule = new_rule]
  /\ result' = Outcome("gene_reaction_rule", "ok", {}, <<>>)
  /\ UNCHANGED <<metabolites, reactions, genes, annotation>>

\* an add_reactions that takes the reaction as the constructor made it
add_reaction_bare(rid, order) ==
  LET names == gene_names(attributes[rid].gene_reaction_rule)
  IN IF has_id(reactions, rid)
     THEN /\ order = <<>>
          /\ result' = Outcome("add_reactions", "ok", {rid}, <<>>)
          /\ UNCHANGED <<metabolites, reactions, genes, annotation, attributes>>
     ELSE /\ order \in Orders(names \ Ids(genes))
          /\ reactions' = Append(reactions, Reaction(rid))
          /\ attributes' = [attributes EXCEPT
                              ![rid].gene_reaction_rule = Attributes.gene_reaction_rule]
          /\ result' = Outcome("add_reactions", "ok", {}, <<>>)
          /\ UNCHANGED <<metabolites, genes, annotation>>

\* minimal.add_reactions([reaction]) for a reaction without metabolites that
\* may have got its rule before: the reaction comes with its rule, the
\* genes of the rule that the model lacks are appended to model.genes (they
\* are taken from a set, so in no fixed order), and every gene of the rule
\* has the reaction among its reactions
add_reaction(rid, order) ==
  LET rule == attributes[rid].gene_reaction_rule
      names == gene_names(rule)
      model_genes == genes \o [i \in DOMAIN order |-> Gene(order[i])]
  IN IF has_id(reactions, rid)
     THEN /\ order = <<>>
          /\ result' = Outcome("add_reactions", "ok", {rid}, <<>>)
          /\ UNCHANGED <<metabolites, reactions, genes, annotation, attributes>>
     ELSE /\ order \in Orders(names \ Ids(genes))
          /\ reactions' = Append(reactions,
               [Reaction(rid) EXCEPT !.gene_reaction_rule = rule, !.genes = names])
          /\ genes' = [i \in DOMAIN model_genes |->
               [model_genes[i] EXCEPT !.reaction =
                  IF model_genes[i].id \in names THEN @ \cup {rid} ELSE @]]
          /\ attributes' = [attributes EXCEPT
                              ![rid].gene_reaction_rule = Attributes.gene_reaction_rule]
          /\ result' = Outcome("add_reactions", "ok", {}, <<>>)
          /\ UNCHANGED <<metabolites, annotation>>

\* ------------------------------------------------------------------ Next
\* The calls that build the metabolic network and write it: metabolites,
\* reactions with their stoichiometry, reaction formulas.
Call ==
  \/ \E l \in MetaboliteLists : add_metabolites(l)
  \/ \E l \in ReactionLists : add_reactions(l)
  \/ \E rid \in ReactionIds, f \in Formulas : build_reaction_from_string(rid, f)
  \/ write_sbml_model

Next ==
  /\ ops < MaxOps
  /\ ops' = ops + 1
  /\ Call

Spec == Init /\ [][Next]_vars

\* The calls that build the gene associations and write them: metabolites,
\* reactions as cobra.Reaction(id) makes them, genes, gene reaction rules.
\* No call here touches a stoichiometry and no call of Call touches a gene,
\* so the two specifications split the calls without losing an interaction.
CallGPR ==
  \/ \E l \in MetaboliteLists : add_metabolites(l)
  \/ \E l \in FreshReactionLists : add_reactions(l)
  \/ \E gid \in GeneIds : genes_append(gid)
  \/ \E rid \in ReactionIds, rule \in Rules,
        o \in SeqsUpTo(GeneIds, Cardinality(GeneIds)) :
       set_gene_reaction_rule(rid, rule, o)
  \/ write_sbml_model

NextGPR ==
  /\ ops < MaxRuleOps
  /\ ops' = ops + 1
  /\ CallGPR

SpecGPR == Init /\ [][NextGPR]_vars

\* The calls that annotate the model and its entities and write it: one
\* metabolite, one reaction with its rule and one gene as the notebook
\* makes them, and assignments to the annotation of the model and of the
\* entities it holds.
CallAnnotation ==
  \/ add_metabolites(<<Metabolite("atp_c", "c")>>)
  \/ add_reactions(<<[id |-> "PFK", metabolites |-> <<>>]>>)
  \/ genes_append("PF3D7_1128300")
  \/ set_gene_reaction_rule("PFK", [op |-> "", atoms |-> <<"PF3D7_1128300">>],
                            <<"PF3D7_1128300">>)
  \/ set_gene_reaction_rule("PFK", [op |-> "", atoms |-> <<"PF3D7_1128300">>],
                            <<>>)
  \/ \E o \in Objects, key \in AnnotationKeys, value \in AnnotationValues :
       set_annotation(o, key, value)
  \/ write_sbml_model

NextAnnotation ==
  /\ ops < MaxAnnotationOps
  /\ ops' = ops + 1
  /\ CallAnnotation

SpecAnnotation == Init /\ [][NextAnnotation]_vars

\* The calls that put identifiers of every shape into the model and write
\* it: the notebook's metabolite that starts with a digit, one that also has
\* a character SBML identifiers do not allow, one in a compartment named
\* like a written species; a reaction; genes.
IdentifierMetabolites ==
  {Metabolite("1ddecg3p_c", "c"), Metabolite("12ppd-R_c", "c"),
   Metabolite("atp_c", "M_atp_c")}

IdentifierLists ==
  {l \in SeqsUpTo(IdentifierMetabolites, MaxListLen) : l # <<>> /\ DistinctIds(l)}

CallIdentifiers ==
  \/ \E l \in IdentifierLists : add_metabolites(l)
  \/ add_reactions(<<[id |-> "PFK", metabolites |-> <<>>]>>)
  \/ \E gid \in GeneIds : genes_append(gid)
  \/ write_sbml_model

NextIdentifiers ==
  /\ ops < MaxIdentifierOps
  /\ ops' = ops + 1
  /\ CallIdentifiers

SpecIdentifiers == Init /\ [][NextIdentifiers]_vars

\* The calls of the notebook itself, in any order and number: its first
\* metabolite, the five metabolites of PFK (as listed in the notebook or in
\* the order of the formula), the reaction, its formula, the gene, the
\* rule, the export.
TutorialMetabolites ==
  {<<Metabolite("1ddecg3p_c", "c")>>,
   <<Metabolite("adp_c", "c"), Metabolite("h_c", "c"), Metabolite("fdp_c", "c"),
     Metabolite("atp_c", "c"), Metabolite("f6p_c", "c")>>,
   <<Metabolite("atp_c", "c"), Metabolite("f6p_c", "c"), Metabolite("adp_c", "c"),
     Metabolite("fdp_c", "c"), Metabolite("h_c", "c")>>}

\* atp_c + f6p_c <=> adp_c + fdp_c + h_c
TutorialFormula ==
  [reactants |-> <<"atp_c", "f6p_c">>, products |-> <<"adp_c", "fdp_c", "h_c">>]

\* PF3D7_1128300 or PF3D7_0915400
TutorialRule == [op |-> "or", atoms |-> <<"PF3D7_1128300", "PF3D7_0915400">>]

CallTutorial ==
  \/ \E l \in TutorialMetabolites : add_metabolites(l)
  \/ add_reactions(<<[id |-> "PFK", metabolites |-> <<>>]>>)
  \/ build_reaction_from_string("PFK", TutorialFormula)
  \/ genes_append("PF3D7_1128300")
  \/ \E o \in SeqsUpTo(GeneIds, Cardinality(GeneIds)) :
       set_gene_reaction_rule("PFK", TutorialRule, o)
  \/ write_sbml_model

NextTutorial ==
  /\ ops < MaxTutorialOps
  /\ ops' = ops + 1
  /\ CallTutorial

SpecTutorial == Init /\ [][NextTutorial]_vars

\* The calls that set the fields of a metabolite, a reaction and a gene,
\* each before or after the entity is added to the model, and write it.
CallFields ==
  \/ add_metabolites(<<Metabolite("atp_c", "c")>>)
  \/ \E order \in SeqsUpTo(GeneIds, 1) : add_reaction("PFK", order)
  \/ genes_append("PF3D7_1128300")
  \/ \E o \in FieldObjects : \E field \in FieldsOf(o) :
       \E value \in FieldValues(field) : setattr(o, field, value)
  \/ set_notes("PF3D7_1128300", "Location", "Chromosome: 11")
  \/ \E o \in FieldObjects, value \in FieldAnnotations :
       set_annotation(o, "rhea", value)
  \/ \E o \in FieldObjects, value \in FieldAnnotations :
       set_annotation_detached(o, "rhea", value)
  \/ \E rule \in FieldRules, order \in SeqsUpTo(GeneIds, 1) :
       set_gene_reaction_rule("PFK", rule, order)
  \/ \E rule \in FieldRules : set_gene_reaction_rule_detached("PFK", rule)
  \/ write_sbml_model

NextFields ==
  /\ ops < MaxFieldOps
  /\ ops' = ops + 1
  /\ CallFields

SpecFields == Init /\ [][NextFields]_vars

\* ---------------------------------------------------------------- claims
\* the metabolite objects a call can be given
MetaboliteInputs == [id : MetaboliteIds \cup {""}, compartment : CompartmentIds]

\* m names a compartment that no metabolite of the model references
unregistered(m) == m.compartment \notin Range(compartments(metabolites))

\* C1 as stated: add_metabolite of a metabolite whose compartment is not
\* registered in the Model fails with UnknownCompartment and leaves the
\* Model exactly as it was.
C1_UnknownCompartment ==
  [][result'.op = "add_metabolites" =>
       \A m \in MetaboliteInputs :
         (unregistered(m) /\ add_metabolites(<<m>>))
           => /\ result'.status = "UnknownCompartment"
              /\ UNCHANGED <<metabolites, reactions, genes>>]_vars

\* C1 amended: add_metabolites of a new metabolite whose compartment is not
\* registered succeeds: the metabolite is appended, its compartment becomes
\* the last compartment of the Model, reactions and genes are untouched;
\* and a call that does fail (empty identifier) leaves the Model as it was.
C1_UnregisteredCompartmentAccepted ==
  [][result'.op = "add_metabolites" =>
       \A m \in MetaboliteInputs :
         (unregistered(m) /\ ~has_id(metabolites, m.id) /\ add_metabolites(<<m>>))
           => IF m.id = ""
              THEN /\ result'.status = "ValueError"
                   /\ UNCHANGED <<metabolites, reactions, genes>>
              ELSE /\ result'.status = "ok"
                   /\ metabolites' = Append(metabolites, m)
                   /\ compartments(metabolites') =
                        Append(compartments(metabolites), m.compartment)
                   /\ UNCHANGED <<reactions, genes>>]_vars

\* a metabolite in a second compartment was added by add_metabolites to a
\* model that had one compartment
C1_Witness ==
  /\ result.op = "add_metabolites" /\ result.status = "ok"
  /\ result.skipped = {}
  /\ ops = 2 /\ reactions = <<>>
  /\ Len(metabolites) = 2
  /\ Len(compartments(metabolites)) = 2

\* C2: a compartment is made by referencing it from a metabolite: adding a
\* new metabolite with a compartment the model lacks succeeds, and the
\* document written afterwards has a compartment element with that id.
C2_CompartmentByReference ==
  [][result'.op = "add_metabolites" =>
       \A m \in MetaboliteInputs :
         (unregistered(m) /\ m.id # "" /\ ~has_id(metabolites, m.id)
            /\ add_metabolites(<<m>>))
           => /\ result'.status = "ok"
              /\ m.compartment \notin Range(sbml.listOfCompartments)
              /\ m.compartment \in Range(sbml'.listOfCompartments)]_vars

\* a document was written that has the compartment of a metabolite added
\* to the empty model
C2_Witness ==
  /\ result.op = "write_sbml_model"
  /\ ops = 2 /\ reactions = <<>>
  /\ Len(metabolites) = 1
  /\ result.document[1].listOfCompartments = <<metabolites[1].compartment>>

unresolved(r) == \E i \in DOMAIN r.metabolites : ~has_id(metabolites, r.metabolites[i].id)

\* every metabolite named by a reaction of the model is in the model
all_resolved == \A i \in DOMAIN reactions : ~unresolved(reactions[i])

rule_references(gid) ==
  {reactions[i].id : i \in {j \in DOMAIN reactions :
                              gid \in Range(reactions[j].gene_reaction_rule.atoms)}}

\* C6: the reverse lookup of every gene of the model returns exactly the
\* reactions whose current rule names the gene.
C6_ReverseLookupExact ==
  \A i \in DOMAIN genes : gene_reactions(genes[i].id) = rule_references(genes[i].id)

\* a rule naming both genes was replaced by the empty rule: both genes are
\* in the model and no reaction is left for either
C6_Witness ==
  /\ result.op = "gene_reaction_rule" /\ ops = 3
  /\ Len(genes) = 2 /\ reactions # <<>>
  /\ \A i \in DOMAIN genes : genes[i].reaction = {}

\* C7: the setter succeeds also when the rule names genes that were not
\* added to the Model, and the reaction then has every gene identifier of
\* the rule among its genes, each of them a gene of the Model.
C7_RuleGenesRecorded ==
  [][result'.op = "gene_reaction_rule" =>
       \A rid \in ReactionIds, rule \in Rules,
          o \in SeqsUpTo(GeneIds, Cardinality(GeneIds)) :
         set_gene_reaction_rule(rid, rule, o)
           => /\ result'.status = "ok"
              /\ get_by_id(reactions', rid).genes = Range(rule.atoms)
              /\ Range(rule.atoms) \subseteq Ids(genes')]_vars

\* a rule naming two genes was set on a model that held no gene
C7_Witness ==
  /\ result.op = "gene_reaction_rule" /\ ops = 2
  /\ Len(genes) = 2
  /\ \E i \in DOMAIN reactions : reactions[i].genes = GeneIds

IsPrefix(a, b) == Len(a) <= Len(b) /\ SubSeq(b, 1, Len(a)) = a

\* the identifiers of the elements of a document list, in document order
id_order(list) == [i \in DOMAIN list |-> list[i].id]

\* C9: species, reactions and gene products are written in the order in
\* which the entities were inserted: a call leaves the elements written so
\* far where they are and puts what it inserts behind them, the entities of
\* one list argument in list order.
C9_InsertionOrder ==
  [][/\ IsPrefix(id_order(listOfSpecies(metabolites)), id_order(listOfSpecies(metabolites')))
     /\ IsPrefix(id_order(listOfReactions(reactions)), id_order(listOfReactions(reactions')))
     /\ IsPrefix(id_order(listOfGeneProducts(genes)), id_order(listOfGeneProducts(genes')))
     /\ result'.op = "add_metabolites" =>
          \A l \in MetaboliteLists :
            (Ids(l) \cap (Ids(metabolites) \cup {""}) = {} /\ add_metabolites(l))
              => id_order(listOfSpecies(metabolites')) =
                   id_order(listOfSpecies(metabolites))
                     \o [i \in DOMAIN l |-> f_replace("M_", l[i].id)]
     /\ result'.op = "add_reactions" =>
          \A l \in FreshReactionLists :
            (Ids(l) \cap Ids(reactions) = {} /\ add_reactions(l))
              => id_order(listOfReactions(reactions')) =
                   id_order(listOfReactions(reactions))
                     \o [i \in DOMAIN l |-> f_replace("R_", l[i].id)]
     /\ result'.op = "write_sbml_model" =>
          /\ id_order(result'.document[1].listOfSpecies) = id_order(listOfSpecies(metabolites))
          /\ id_order(result'.document[1].listOfReactions) = id_order(listOfReactions(reactions))
          /\ id_order(result'.document[1].listOfGeneProducts)
               = id_order(listOfGeneProducts(genes))]_vars

\* a document was written with two species and two reactions
C9_Witness ==
  /\ result.op = "write_sbml_model"
  /\ Len(result.document[1].listOfSpecies) = 2
  /\ Len(result.document[1].listOfReactions) = 2

\* the species a list of species references names
species_of(refs) == {refs[i].species : i \in DOMAIN refs}

\* the written identifiers of the metabolites of r whose coefficient
\* satisfies the test
species_where(r, Test(_)) ==
  {f_replace("M_", r.metabolites[i].id) :
     i \in {j \in DOMAIN r.metabolites : Test(r.metabolites[j].coefficient)}}

\* C10: for every reaction the written reactants are exactly the
\* metabolites with a negative coefficient and the written products exactly
\* those with a positive one; the two lists are disjoint and together they
\* are the metabolites with a coefficient other than zero.
C10_PartitionBySign ==
  \A i \in DOMAIN reactions :
    LET written == sbml.listOfReactions[i]
        reactants == species_of(written.listOfReactants)
        products == species_of(written.listOfProducts)
    IN /\ reactants = species_where(reactions[i], LAMBDA c : c < 0)
       /\ products = species_where(reactions[i], LAMBDA c : c > 0)
       /\ reactants \cap products = {}
       /\ reactants \cup products = species_where(reactions[i], LAMBDA c : c # 0)
       /\ Len(written.listOfReactants) + Len(written.listOfProducts)
            = Cardinality(reactants \cup products)

\* a reaction with a reactant and a product got its formula assigned
C10_Witness ==
  /\ result.op = "reaction"
  /\ \E i \in DOMAIN reactions :
       /\ sbml.listOfReactions[i].listOfReactants # <<>>
       /\ sbml.listOfReactions[i].listOfProducts # <<>>

\* the beginning of the string s is prefix
starts_with(s, prefix) ==
  Len(prefix) <= Len(s) /\ SubSeq(s, 1, Len(prefix)) = prefix

\* the annotation blocks the document has for the object named o
blocks(doc, o) ==
  IF o = "minimal" THEN doc.annotation
  ELSE IF has_id(metabolites, o)
  THEN get_by_id(doc.listOfSpecies, "M_" \o o).annotation
  ELSE IF has_id(reactions, o)
  THEN get_by_id(doc.listOfReactions, "R_" \o o).annotation
  ELSE get_by_id(doc.listOfGeneProducts, "G_" \o o).annotation

\* the cross-references the document has for the object named o
references(doc, o) ==
  IF blocks(doc, o) = <<>> THEN <<>> ELSE blocks(doc, o)[1].Bag

\* the objects a document is written for: the model and its entities
Exported == {o \in Objects : in_model(o)}

references_of(doc, o, key) ==
  SelectSeq(references(doc, o), LAMBDA u :
    starts_with(u, "https://identifiers.org/" \o key \o "/"))

\* C12: an assignment to a key of an annotation replaces what the key had:
\* reading the key gives the assigned value, a document written then has
\* only the references of that value under the key, and every other key of
\* the object, and every other object, keeps its values.
C12_SetReplaces ==
  [][result'.op = "annotation" =>
       \A o \in Objects, key \in AnnotationKeys, value \in AnnotationValues :
         set_annotation(o, key, value)
           => /\ getitem(annotation'[o], key) = value
              /\ references_of(sbml', o, key) =
                   [j \in DOMAIN value.data |->
                      "https://identifiers.org/" \o key \o "/" \o value.data[j]]
              /\ \A other \in AnnotationKeys \ {key} :
                   /\ getitem(annotation'[o], other) = getitem(annotation[o], other)
                   /\ references_of(sbml', o, other) = references_of(sbml, o, other)
              /\ \A o2 \in Objects \ {o} : annotation'[o2] = annotation[o2]]_vars

\* a key that had a value was assigned a different one, on an object that
\* has a value under the other key too
C12_Witness ==
  /\ result.op = "annotation" /\ result.replaced
  /\ \E o \in Exported : Len(annotation[o]) = 2

\* the characters of SBML identifiers: [a-zA-Z_][a-zA-Z_0-9]*
Digits == {"0", "1", "2", "3", "4", "5", "6", "7", "8", "9"}

Letters ==
  {"a", "b", "c", "d", "e", "f", "g", "h", "i", "j", "k", "l", "m", "n", "o",
   "p", "q", "r", "s", "t", "u", "v", "w", "x", "y", "z",
   "A", "B", "C", "D", "E", "F", "G", "H", "I", "J", "K", "L", "M", "N", "O",
   "P", "Q", "R", "S", "T", "U", "V", "W", "X", "Y", "Z"}

IsSId(s) ==
  /\ Len(s) > 0
  /\ SubSeq(s, 1, 1) \in Letters \cup {"_"}
  /\ \A i \in 1..Len(s) : SubSeq(s, i, i) \in Letters \cup Digits \cup {"_"}

starts_with_digit(s) == Len(s) > 0 /\ SubSeq(s, 1, 1) \in Digits

\* every character of s is one SBML identifiers allow
in_alphabet(s) ==
  \A i \in 1..Len(s) : SubSeq(s, i, i) \in Letters \cup Digits \cup {"_"}

\* every written species, reaction and gene product has the identifier of
\* its entity behind the prefix of its class
prefixed(doc) ==
  /\ id_order(doc.listOfSpecies) = [i \in DOMAIN metabolites |-> "M_" \o metabolites[i].id]
  /\ id_order(doc.listOfReactions) = [i \in DOMAIN reactions |-> "R_" \o reactions[i].id]
  /\ id_order(doc.listOfGeneProducts) = [i \in DOMAIN genes |-> "G_" \o genes[i].id]

written_as ==
  {<<c, c>> : c \in Range(compartments(metabolites))}
    \cup {<<metabolites[i].id, f_replace("M_", metabolites[i].id)>> :
            i \in DOMAIN metabolites}
    \cup {<<reactions[i].id, f_replace("R_", reactions[i].id)>> :
            i \in DOMAIN reactions}
    \cup {<<genes[i].id, f_replace("G_", genes[i].id)>> : i \in DOMAIN genes}

\* two different identifiers of the model are written as the same one
collision == \E a, b \in written_as : a[1] # b[1] /\ a[2] = b[2]

\* C14: when two different identifiers of the model are written as the
\* same identifier, write_sbml_model fails with ExportIdentifierCollision
\* and writes no document.
C14_CollisionReported ==
  [][(collision /\ result'.op = "write_sbml_model")
       => /\ result'.status = "ExportIdentifierCollision"
          /\ result'.document = <<>>]_vars

\* the model holds what the tutorial builds: the five metabolites in
\* compartment c, PFK with its formula and its rule assigned
tutorial_model ==
  /\ \A m \in {"atp_c", "f6p_c", "adp_c", "fdp_c", "h_c"} :
       has_id(metabolites, m) /\ get_by_id(metabolites, m).compartment = "c"
  /\ has_id(reactions, "PFK")
  /\ get_by_id(reactions, "PFK").metabolites # <<>>
  /\ get_by_id(reactions, "PFK").gene_reaction_rule.atoms # <<>>

\* C15: the document written for the tutorial's model has, for PFK, the
\* two reactants atp_c and f6p_c, the three products adp_c, fdp_c and h_c,
\* and one association: an "or" of the gene products G_PF3D7_1128300 and
\* G_PF3D7_0915400.
C15_TutorialReaction ==
  (result.op = "write_sbml_model" /\ tutorial_model) =>
    LET PFK == get_by_id(result.document[1].listOfReactions, "R_PFK")
    IN /\ Len(PFK.listOfReactants) = 2
       /\ species_of(PFK.listOfReactants) = {"M_atp_c", "M_f6p_c"}
       /\ Len(PFK.listOfProducts) = 3
       /\ species_of(PFK.listOfProducts) = {"M_adp_c", "M_fdp_c", "M_h_c"}
       /\ Len(PFK.geneProductAssociation) = 1
       /\ PFK.geneProductAssociation[1].op = "or"
       /\ Len(PFK.geneProductAssociation[1].geneProductRef) = 2
       /\ Range(PFK.geneProductAssociation[1].geneProductRef)
            = {"G_PF3D7_1128300", "G_PF3D7_0915400"}

\* the tutorial's model was written
C15_Witness ==
  /\ result.op = "write_sbml_model" /\ tutorial_model
  /\ Len(get_by_id(result.document[1].listOfReactions, "R_PFK").listOfProducts) = 3

parameters_named(doc, id) ==
  Cardinality({i \in DOMAIN doc.listOfParameters : doc.listOfParameters[i].id = id})

C20_RuleGenesDeclared ==
  result.op = "write_sbml_model" =>
    LET doc == result.document[1]
    IN /\ \A i \in DOMAIN reactions :
            \A g \in Range(reactions[i].gene_reaction_rule.atoms) :
              has_id(doc.listOfGeneProducts, "G_" \o g)
       /\ \A i \in DOMAIN doc.listOfReactions :
            \A j \in DOMAIN doc.listOfReactions[i].geneProductAssociation :
              Range(doc.listOfReactions[i].geneProductAssociation[j].geneProductRef)
                \subseteq Ids(doc.listOfGeneProducts)

\* a document was written after a reaction was added and given a rule of
\* two genes, neither of which was appended to the model
C20_Witness ==
  /\ result.op = "write_sbml_model" /\ ops = 3
  /\ Len(result.document[1].listOfGeneProducts) = 2
  /\ \E i \in DOMAIN reactions :
       Len(reactions[i].gene_reaction_rule.atoms) = 2

\* the fields of an entity that reach the document
EntityFields(o) ==
  FieldsOf(o) \cup {"annotation"}
    \cup (IF o \in ReactionIds THEN {"gene_reaction_rule"} ELSE {})
    \cup (IF o \in GeneIds THEN {"notes"} ELSE {})

\* the element that the document has for the entity named o of the model
element(o) ==
  IF has_id(metabolites, o) THEN listOfSpecies(metabolites)[index(metabolites, o)]
  ELSE IF has_id(reactions, o) THEN listOfReactions(reactions)[index(reactions, o)]
  ELSE listOfGeneProducts(genes)[index(genes, o)]

\* what the element says for a field of the entity
exported(o, field) ==
  CASE field = "name" -> element(o).name
    [] field = "charge" -> element(o).charge
    [] field = "formula" -> element(o).chemicalFormula
    [] field = "notes" -> element(o).notes
    [] field = "annotation" -> element(o).annotation
    [] field = "gene_reaction_rule" -> element(o).geneProductAssociation

\* the value that the field of the object has now
field_value(o, field) ==
  CASE field = "annotation" -> annotation[o]
    [] field = "gene_reaction_rule" ->
         IF has_id(reactions, o) THEN get_by_id(reactions, o).gene_reaction_rule
         ELSE attributes[o].gene_reaction_rule
    [] OTHER -> attributes[o][field]

\* what an element says for a field that has the value
shown(o, field, value) ==
  CASE field = "name" ->
         IF o \in GeneIds
         THEN (IF value = "" THEN f_replace("G_", o) ELSE value)
         ELSE name_attribute(value)
    [] field = "notes" -> sbase_notes(value)
    [] field = "annotation" -> sbase_annotations(value)
    [] field = "gene_reaction_rule" ->
         geneProductAssociation([gene_reaction_rule |-> value])
    [] OTHER -> value

\* the calls that assign the field
assignment(field) ==
  CASE field = "annotation" -> "annotation"
    [] field = "gene_reaction_rule" -> "gene_reaction_rule"
    [] field = "notes" -> "notes"
    [] OTHER -> "setattr"

\* C21 as stated: the document depends only on the final field values,
\* not on the order of the attach and set operations.  Setting the final
\* values before attaching gives a document whose gene products are the
\* gene that was appended and the genes that the final rules name, so
\* every document written has these gene products and no others: each
\* gene product is the appended gene or is referred to by an association.
C21_FinalValuesOnly ==
  result.op = "write_sbml_model" =>
    LET doc == result.document[1]
    IN \A i \in DOMAIN doc.listOfGeneProducts :
         \/ doc.listOfGeneProducts[i].id \in {f_replace("G_", o) : o \in FieldObjects}
         \/ \E j \in DOMAIN doc.listOfReactions :
              \E k \in DOMAIN doc.listOfReactions[j].geneProductAssociation :
                doc.listOfGeneProducts[i].id \in
                  Range(doc.listOfReactions[j].geneProductAssociation[k].geneProductRef)

\* C21 (amended): the element that the document has for an entity shows,
\* for name, charge, formula, notes, annotation and rule, the value last
\* assigned, whether it was assigned before or after the entity was added
\* to the model.  An entity that is added shows the values it got before;
\* an assignment to an entity of the model shows at once; no other call
\* changes what the element says.
C21_LastAssignedExported ==
  [][/\ \A o \in FieldObjects :
          (~in_model(o) /\ in_model(o)') =>
             \A field \in EntityFields(o) :
               exported(o, field)' = shown(o, field, field_value(o, field))
     /\ result'.op = "setattr" =>
          \A o \in FieldObjects : \A field \in FieldsOf(o) :
            \A value \in FieldValues(field) :
              (in_model(o) /\ setattr(o, field, value))
                => exported(o, field)' = shown(o, field, value)
     /\ result'.op = "notes" =>
          \A o \in FieldObjects \cap GeneIds :
            (in_model(o) /\ set_notes(o, "Location", "Chromosome: 11"))
              => exported(o, "notes")' =
                   shown(o, "notes",
                         setitem(attributes[o].notes, "Location", "Chromosome: 11"))
     /\ result'.op = "annotation" =>
          \A o \in FieldObjects, value \in FieldAnnotations :
            set_annotation(o, "rhea", value)
              => exported(o, "annotation")' =
                   shown(o, "annotation", setitem(annotation[o], "rhea", value))
     /\ result'.op = "gene_reaction_rule" =>
          \A o \in FieldObjects \cap ReactionIds, rule \in FieldRules :
            \A order \in SeqsUpTo(GeneIds, 1) :
              set_gene_reaction_rule(o, rule, order)
                => exported(o, "gene_reaction_rule")' =
                     shown(o, "gene_reaction_rule", rule)
     /\ \A o \in FieldObjects :
          in_model(o) =>
             \A field \in EntityFields(o) :
               exported(o, field)' # exported(o, field)
                 => result'.op = assignment(field)]_vars

\* the reaction was just added to the model with a name and a rule that it
\* got before, and its element has the name and the association
C21_Witness ==
  /\ result.op = "add_reactions"
  /\ result.skipped = {}
  /\ has_id(reactions, "PFK")
  /\ exported("PFK", "name") # <<>>
  /\ exported("PFK", "gene_reaction_rule") # <<>>

====
